---- MODULE Spec2Model ----
(***************************************************************************)
(* Model of ansiblelater/utils/yamlhelper.py: the task extractor           *)
(* (action_tasks, extract_from_list, add_action_type), the task normalizer *)
(* (normalize_task) and the dependency resolver (find_children,            *)
(* play_children and the strategies it dispatches to).                     *)
(*                                                                         *)
(* Python values are modelled as tagged records:                           *)
(*   Str(toks)  a string, as the sequence of its space-separated tokens    *)
(*   List(s)    a list                                                     *)
(*   Ref(id)    a reference to a mapping object held in the heap           *)
(*   Dict(f)    a mapping held by value (never mutated after creation)     *)
(*   None, Num(n)                                                        *)
(* Mappings that the code mutates in place (the parsed task mappings) live *)
(* in `heap`, so that aliasing between the flat task list, the block       *)
(* owners' lists and the metadata snapshots is the aliasing of the code.   *)
(***************************************************************************)
EXTENDS Integers, Sequences, FiniteSets, TLC

VARIABLES
    pc,         \* which operation ran last
    heap,       \* mapping objects: id -> [key -> value]
    yaml,       \* the parsed content handed to action_tasks (a sequence of values)
    file,       \* the file descriptor handed to action_tasks
    parsed,     \* the heap as parse_yaml_linenumbers left it
    tasks,      \* result of action_tasks: [err, val]
    task_in,    \* the arguments of the last normalize_task call
    normalized, \* result of the last normalize_task call: [err, val]
    builtin_tasks, \* ansible.parsing.mod_args.BUILTIN_TASKS (process-wide)
    renormalized,  \* result of normalizing the re-fed normalized record
    fs,         \* the file system: [dirs, files, content]
    call,       \* the arguments of the resolver call
    children,   \* result of the resolver call: [err, val]
    module_dirs \* directories registered with the module loader

extractVars == <<heap, yaml, file, parsed, tasks, task_in, normalized,
                 builtin_tasks, renormalized>>
resolveVars == <<fs, call, children, module_dirs>>
vars == <<pc, extractVars, resolveVars>>

(***************************************************************************)
(* Bounds                                                                  *)
(***************************************************************************)
\* mapping nodes per parsed document
MaxNodes == 3

(***************************************************************************)
(* Values                                                                  *)
(***************************************************************************)
Str(toks) == [str |-> toks]
List(s) == [list |-> s]
Ref(id) == [ref |-> id]
Dict(f) == [dict |-> f]
Num(n) == [int |-> n]
None == [none |-> TRUE]

IsStr(v) == DOMAIN v = {"str"}
IsList(v) == DOMAIN v = {"list"}
IsRef(v) == DOMAIN v = {"ref"}
IsDictVal(v) == DOMAIN v = {"dict"}
IsNone(v) == DOMAIN v = {"none"}

\* a token of a string, as split_args sees it: a plain word, key=value, or a
\* quoted phrase "w1 w2 ..." (one token holding spaces).  The word of a task
\* argument is a string; the word of a path is the sequence of the path's
\* components.
Word(w) == [w |-> w]
KV(k, v) == [k |-> k, v |-> v]
Quoted(ws) == [q |-> ws]
HasEq(tok) == "k" \in DOMAIN tok
IsQuoted(tok) == "q" \in DOMAIN tok

EmptyDict == <<>>
Put(d, k, v) == [x \in DOMAIN d \cup {k} |-> IF x = k THEN v ELSE d[x]]
Pop(d, ks) == [x \in DOMAIN d \ ks |-> d[x]]
Get(d, k, default) == IF k \in DOMAIN d THEN d[k] ELSE default
Update(d, e) == [x \in DOMAIN d \cup DOMAIN e |-> IF x \in DOMAIN e THEN e[x] ELSE d[x]]

\* Python truthiness of the values that the code tests with `if v:`
Truthy(v) ==
    CASE IsNone(v) -> FALSE
      [] IsStr(v) -> v.str # <<>>
      [] IsList(v) -> v.list # <<>>
      [] IsDictVal(v) -> DOMAIN v.dict # {}
      [] DOMAIN v = {"int"} -> v.int # 0
      [] OTHER -> TRUE

Ok(v) == [err |-> "", val |-> v]
Raise(e) == [err |-> e, val |-> None]

(***************************************************************************)
(* Module constants                                                        *)
(***************************************************************************)
LINE_NUMBER_KEY == "__line__"
FILENAME_KEY == "__file__"

BLOCK_NAME_TO_ACTION_TYPE_MAP ==
    [tasks |-> "task", handlers |-> "handler", pre_tasks |-> "task",
     post_tasks |-> "task", block |-> "meta", rescue |-> "meta", always |-> "meta"]

(***************************************************************************)
(* parse_yaml_linenumbers: every mapping node gets the line where the      *)
(* previous token ended, plus one, and the file name.                      *)
(***************************************************************************)
\* compose_node: node.__line__ = loader.line + 1
compose_node(line) == line + 1

\* construct_mapping: the mapping of a node composed at loader line `line`
construct_mapping(fields, line, filename) ==
    Put(Put(fields, LINE_NUMBER_KEY, Num(compose_node(line))),
        FILENAME_KEY, Str(<<Word(filename)>>))

(***************************************************************************)
(* Task extractor                                                          *)
(***************************************************************************)
\* add_action_type: tags every action in place and returns the same objects
RECURSIVE add_action_type_from(_, _, _, _, _)
add_action_type_from(h, actions, action_type, action_meta, i) ==
    IF i > Len(actions) THEN [heap |-> h, out |-> actions, err |-> ""]
    ELSE IF ~IsRef(actions[i]) THEN [heap |-> h, out |-> <<>>, err |-> "TypeError"]
    ELSE LET id == actions[i].ref
             tagged == Put(h[id], "__ansible_action_type__",
                           Str(<<Word(BLOCK_NAME_TO_ACTION_TYPE_MAP[action_type])>>))
             withmeta == IF DOMAIN action_meta # {}
                         THEN Put(tagged, "__ansible_action_meta__", Dict(action_meta))
                         ELSE tagged
         IN add_action_type_from([h EXCEPT ![id] = withmeta], actions,
                                 action_type, action_meta, i + 1)

add_action_type(h, actions, action_type, action_meta) ==
    add_action_type_from(h, actions, action_type, action_meta, 1)

\* the keys extract_from_list removes from the snapshot of a block owner
delete_meta_keys(candidate) ==
    {candidate, "__line__", "__file__", "__ansible_action_type__"}

\* one (block, candidate) iteration of extract_from_list
extract_step(st, block, candidate) ==
    IF st.err # "" THEN st
    ELSE IF IsRef(block) /\ candidate \in DOMAIN st.heap[block.ref]
    THEN LET d == st.heap[block.ref] IN
         IF IsList(d[candidate])
         THEN LET meta_data == Pop(d, delete_meta_keys(candidate))
                  r == add_action_type(st.heap, d[candidate].list, candidate, meta_data)
              IN [heap |-> r.heap, out |-> st.out \o r.out, err |-> r.err]
         ELSE IF ~IsNone(d[candidate])
         THEN [st EXCEPT !.err = "RuntimeError"]
         ELSE st
    ELSE st

RECURSIVE extract_loop(_, _, _, _, _)
extract_loop(st, blocks, candidates, i, j) ==
    IF i > Len(blocks) THEN st
    ELSE IF j > Len(candidates) THEN extract_loop(st, blocks, candidates, i + 1, 1)
    ELSE extract_loop(extract_step(st, blocks[i], candidates[j]),
                      blocks, candidates, i, j + 1)

extract_from_list(h, blocks, candidates) ==
    extract_loop([heap |-> h, out |-> <<>>, err |-> ""], blocks, candidates, 1, 1)

block_rescue_always == {"block", "rescue", "always"}
allowed_without_import_tasks == {"include", "include_tasks", "import_playbook"}
allowed == {"include", "include_tasks", "import_playbook", "import_tasks"}

\* the two filters at the end of action_tasks
not_block_owner(h, t) == \A k \in block_rescue_always : k \notin DOMAIN h[t.ref]
not_include(h, t) == allowed \cap DOMAIN h[t.ref] = {}

\* lines 444-449 of action_tasks: the list without block owners and includes
filter_tasks(first, sub) ==
    IF sub.err # "" THEN [heap |-> sub.heap, out |-> <<>>, err |-> sub.err]
    ELSE [heap |-> sub.heap,
          out |-> SelectSeq(SelectSeq(first.out \o sub.out,
                                      LAMBDA t : not_block_owner(sub.heap, t)),
                            LAMBDA t : not_include(sub.heap, t)),
          err |-> ""]

\* line 442 of action_tasks: the items of the candidates' block/rescue/always
extract_sub(first) ==
    filter_tasks(first, IF first.err # "" THEN first
                        ELSE extract_from_list(first.heap, first.out,
                                               <<"block", "rescue", "always">>))

action_tasks(h, content, f) ==
    extract_sub(IF f.filetype \in {"tasks", "handlers"}
                THEN add_action_type(h, content, f.filetype, EmptyDict)
                ELSE extract_from_list(h, content,
                         <<"tasks", "handlers", "pre_tasks", "post_tasks">>))

(***************************************************************************)
(* The module-argument grammar (ansible's ModuleArgsParser), as            *)
(* normalize_task uses it: parse() returns (action, args, delegate_to) or  *)
(* raises AnsibleParserError.                                              *)
(***************************************************************************)
\* ansible.parsing.mod_args.BUILTIN_TASKS before any custom module is added
BUILTIN_TASKS == {"meta", "include_role", "import_role"}
\* the modules the plugin loader finds
Modules == {"debug", "command", "shell", "copy"}
\* modules taking free-form (raw) parameters
RAW_PARAM_MODULES == {"command", "shell", "script", "raw"}
\* key=value options a free-form module keeps out of its raw parameters
RawOptions == {"chdir", "creates", "removes", "executable"}
\* task keywords, never taken for a module name
task_attrs == {"name", "when", "tags", "register", "notify", "delegate_to",
               "args", "action", "local_action", "become", "ignore_errors"}

\* parse_kv: key=value tokens become options, the rest is _raw_params
IsRawToken(tok, check_raw) == ~HasEq(tok) \/ (check_raw /\ tok.k \notin RawOptions)
parse_kv(toks, check_raw) ==
    LET opt == { i \in 1..Len(toks) : ~IsRawToken(toks[i], check_raw) }
        keys == { toks[i].k : i \in opt }
        last(k) == CHOOSE i \in opt : toks[i].k = k /\ \A j \in opt : toks[j].k = k => j <= i
        options == [k \in keys |-> Str(<<Word(toks[last(k)].v)>>)]
        raw == SelectSeq(toks, LAMBDA t : IsRawToken(t, check_raw))
    IN IF raw = <<>> THEN options ELSE Put(options, "_raw_params", Str(raw))

\* _normalize_new_style_args: the module name is known
normalize_new_style_args(thing, action) ==
    CASE IsDictVal(thing) -> [err |-> "", action |-> action, args |-> thing.dict]
      [] IsStr(thing) -> [err |-> "", action |-> action,
                          args |-> parse_kv(thing.str, action \in RAW_PARAM_MODULES)]
      [] IsNone(thing) -> [err |-> "", action |-> action, args |-> EmptyDict]
      [] OTHER -> [err |-> "AnsibleParserError", action |-> action, args |-> EmptyDict]

\* _normalize_old_style_args: action/local_action, the module name is inside
normalize_old_style_args(thing) ==
    CASE IsDictVal(thing) ->
           IF "module" \in DOMAIN thing.dict /\ IsStr(thing.dict["module"])
              /\ thing.dict["module"].str # <<>>
           THEN LET mtoks == thing.dict["module"].str
                    action == mtoks[1].w
                IN [err |-> "", action |-> action,
                    args |-> Update(Pop(thing.dict, {"module"}),
                                    parse_kv(Tail(mtoks), action \in RAW_PARAM_MODULES))]
           ELSE [err |-> "", action |-> "", args |-> EmptyDict]
      [] IsStr(thing) /\ thing.str # <<>> ->
           LET action == thing.str[1].w
           IN [err |-> "", action |-> action,
               args |-> parse_kv(Tail(thing.str), action \in RAW_PARAM_MODULES)]
      [] OTHER -> [err |-> "AnsibleParserError", action |-> "", args |-> EmptyDict]

\* older grammars turn shell into command plus the _uses_shell flag
handle_shell_weirdness(r, legacy) ==
    IF legacy /\ r.err = "" /\ r.action = "shell"
    THEN [r EXCEPT !.action = "command",
                   !.args = Put(r.args, "_uses_shell", [bool |-> TRUE])]
    ELSE r

\* the additional args of the task, updated with the args found
with_additional_args(r, additional_args) ==
    [r EXCEPT !.args = Update(additional_args, r.args)]

\* _normalize_parameters; action = "" stands for None
normalize_parameters(thing, action, additional_args, legacy) ==
    with_additional_args(
        handle_shell_weirdness(IF action # "" THEN normalize_new_style_args(thing, action)
                               ELSE normalize_old_style_args(thing), legacy),
        additional_args)

ParserError ==
    [err |-> "AnsibleParserError", action |-> "", args |-> EmptyDict, delegate_to |-> None]

\* the end of parse(): an action was found, raw parameters only where allowed
parse_checked(a, delegate_to) ==
    IF \/ a.err # ""
       \/ a.action = ""
       \/ /\ "_raw_params" \in DOMAIN a.args
          /\ a.args["_raw_params"] # Str(<<>>)
          /\ a.action \notin RAW_PARAM_MODULES
    THEN ParserError
    ELSE [err |-> "", action |-> a.action, args |-> a.args, delegate_to |-> delegate_to]

\* parse(): the module keys of the task, after action and local_action gave a
parse_module_keys(task, known, a, additional_args, delegate_to, legacy) ==
    LET candidates == { k \in DOMAIN task : k \notin task_attrs /\ k \in known }
    IN IF a.err # "" \/ Cardinality(candidates) > 1 \/ (candidates # {} /\ a.action # "")
       THEN ParserError
       ELSE IF candidates # {}
       THEN parse_checked(normalize_parameters(task[CHOOSE k \in candidates : TRUE],
                                               CHOOSE k \in candidates : TRUE,
                                               additional_args, legacy),
                          delegate_to)
       ELSE parse_checked(a, delegate_to)

\* parse(): local_action, after action gave a
parse_local_action(task, known, a, additional_args, legacy) ==
    IF a.err # "" THEN ParserError
    ELSE IF "local_action" \in DOMAIN task
    THEN IF a.action # "" THEN ParserError
         ELSE parse_module_keys(task, known,
                  normalize_parameters(task["local_action"], "", additional_args, legacy),
                  additional_args, Str(<<Word("localhost")>>), legacy)
    ELSE parse_module_keys(task, known, a, additional_args,
                           Get(task, "delegate_to", None), legacy)

\* parse(): action
parse_action(task, known, additional_args, legacy) ==
    parse_local_action(task, known,
        IF "action" \in DOMAIN task
        THEN normalize_parameters(task["action"], "", additional_args, legacy)
        ELSE [err |-> "", action |-> "", args |-> EmptyDict],
        additional_args, legacy)

\* ModuleArgsParser(task).parse(); known are the recognised module names
mod_args_parse(task, known, legacy) ==
    parse_action(task, known,
                 IF "args" \in DOMAIN task /\ IsDictVal(task["args"])
                 THEN task["args"].dict ELSE EmptyDict,
                 legacy)

(***************************************************************************)
(* Task normalizer                                                         *)
(***************************************************************************)
\* str.strip().split(): the whitespace-separated pieces of a string; a quoted
\* phrase falls apart at its spaces
RECURSIVE Pieces(_)
Pieces(toks) ==
    IF toks = <<>> THEN <<>>
    ELSE LET t == toks[1]
             ps == IF IsQuoted(t)
                   THEN [i \in 1..Len(t.q) |->
                           Str(<<[open |-> i = 1, close |-> i = Len(t.q), w |-> t.q[i]]>>)]
                   ELSE <<Str(<<t>>)>>
         IN ps \o Pieces(Tail(toks))

reserved_keys == {"action", "local_action", "args", "delegate_to"}
meta_keys == {"__line__", "__file__", "__ansible_action_meta__"}

\* a pass-through loop that skips the reserved keys only
passthrough_with_module_key(task, action) ==
    LET passed == { k \in DOMAIN task : k \notin reserved_keys }
    IN [k \in passed |-> task[k]]

\* the pass-through loop: every raw field but the reserved keys and the module key
passthrough_fields(task, action) ==
    LET passed == { k \in DOMAIN task : k \notin reserved_keys /\ k # action }
    IN [k \in passed |-> task[k]]

\* normalized["action"]: module name, raw-argument sequence, then the arguments
action_record(action, arguments) ==
    LET raw == IF "_raw_params" \in DOMAIN arguments
               THEN List(Pieces(arguments["_raw_params"].str))
               ELSE List(<<>>)
        act0 == ("__ansible_module__" :> Str(<<Word(action)>>))
                  @@ ("__ansible_arguments__" :> raw)
    IN Update(act0, Pop(arguments, {"_raw_params"}))

\* a normalizer that does not add the extracted metadata back
restore_nothing(n, ansible_meta) == n

\* "add back extracted metadata": only the values that are truthy
restore_meta(n, ansible_meta) ==
    LET back == { k \in meta_keys : Truthy(ansible_meta[k]) }
    IN Update(n, [k \in back |-> ansible_meta[k]])

\* the body of normalize_task from the parser's answer on: the parser's
\* error is raised as LaterAnsibleError
build_normalized(task, filename, ansible_action_type, ansible_meta, p) ==
    LET uses_shell == "_uses_shell" \in DOMAIN p.args
        action == IF uses_shell THEN "shell" ELSE p.action
        arguments == Pop(p.args, {"_uses_shell"})
        n0 == Update(("delegate_to" :> p.delegate_to), passthrough_fields(task, action))
        n1 == Put(n0, "action", Dict(action_record(action, arguments)))
        n2 == Put(Put(n1, FILENAME_KEY, Str(<<Word(filename)>>)),
                  "__ansible_action_type__", ansible_action_type)
    IN IF p.err # "" THEN Raise("LaterAnsibleError")
       ELSE Ok(restore_meta(n2, ansible_meta))

\* normalize_task(task, filename, custom_modules): the task mapping as it is
\* left (its bookkeeping keys popped), the module registry, and the result
normalize_task(task, filename, custom_modules, builtin, legacy) ==
    LET ansible_action_type == Get(task, "__ansible_action_type__", Str(<<Word("task")>>))
        ansible_meta == [k \in meta_keys |->
                           Get(task, k, IF k = "__ansible_action_meta__"
                                        THEN Dict(EmptyDict) ELSE None)]
        left == Pop(task, meta_keys \cup {"__ansible_action_type__"})
        builtin2 == builtin \cup custom_modules
    IN [task |-> left,
        builtin |-> builtin2,
        res |-> build_normalized(left, filename, ansible_action_type, ansible_meta,
                                 mod_args_parse(left, builtin2 \cup Modules, legacy))]

(***************************************************************************)
(* Parsed documents.  A document is the tree parse_yaml_linenumbers builds *)
(* from a file: its mapping nodes are numbered in document order (the id   *)
(* is the heap address), node id is composed at loader line id - 1.        *)
(***************************************************************************)
FileNames == {"site.yml", "main.yml"}
FileTypes == {"tasks", "handlers", "playbook"}

\* the fields of the childless task shapes
LeafFields ==
    { ("debug" :> Str(<<KV("msg", "a")>>)),
      ("include" :> Str(<<Word("sub.yml")>>)),
      ("include_tasks" :> Str(<<Word("sub.yml")>>)),
      ("import_playbook" :> Str(<<Word("sub.yml")>>)),
      ("import_tasks" :> Str(<<Word("sub.yml")>>)) }

\* a block owner's section: absent when it has no items
Section(key, roots) == IF roots = <<>> THEN EmptyDict ELSE (key :> List(roots))

RECURSIVE Forests(_, _, _), Trees(_, _, _)
\* forests of exactly k mapping nodes with ids s .. s+k-1
Forests(k, s, fname) ==
    IF k = 0 THEN {[roots |-> <<>>, objs |-> EmptyDict]}
    ELSE UNION { { [roots |-> <<Ref(s)>> \o f.roots, objs |-> t @@ f.objs] :
                     t \in Trees(j, s, fname), f \in Forests(k - j, s + j, fname) } :
                 j \in 1..k }
\* trees of exactly j mapping nodes rooted at id s, as heaps
Trees(j, s, fname) ==
    IF j = 1
    THEN { (s :> construct_mapping(lf, s - 1, fname)) : lf \in LeafFields }
    ELSE UNION { UNION { { (s :> construct_mapping(
                                     Section("block", fb.roots)
                                       @@ Section("rescue", fr.roots)
                                       @@ Section("always", fa.roots),
                                     s - 1, fname))
                             @@ fb.objs @@ fr.objs @@ fa.objs :
                           fb \in Forests(a, s + 1, fname),
                           fr \in Forests(b, s + 1 + a, fname),
                           fa \in Forests(j - 1 - a - b, s + 1 + a + b, fname) } :
                         b \in 0..(j - 1 - a) } :
                 a \in 0..(j - 1) }

\* a task or handler file: a list of tasks
TaskDocs(fname) ==
    UNION { { [yaml |-> f.roots, heap |-> f.objs] : f \in Forests(k, 1, fname) } :
            k \in 0..MaxNodes }

PlaySections == {"tasks", "handlers", "pre_tasks", "post_tasks"}

\* a playbook: one play with one task section
PlayDocs(fname) ==
    UNION { { [yaml |-> <<Ref(1)>>,
               heap |-> (1 :> construct_mapping(head @@ (sec :> List(f.roots)), 0, fname))
                          @@ f.objs] :
                f \in Forests(k, 2, fname), sec \in PlaySections, head \in { EmptyDict, ("hosts" :> Str(<<Word("all")>>)) } } :
            k \in 0..(MaxNodes - 1) }

\* task files whose only top-level entry is a block owner with an empty, null
\* or non-list section
OddValues == { None, Str(<<Word("oops")>>), List(<<>>) }
OddDocs(fname) ==
    { [yaml |-> <<Ref(1)>>,
       heap |-> (1 :> construct_mapping(("block" :> bv) @@ rest.fields, 0, fname))
                  @@ rest.objs] :
        bv \in OddValues,
        rest \in { [fields |-> EmptyDict, objs |-> EmptyDict] }
                 \cup { [fields |-> ("rescue" :> rv), objs |-> EmptyDict] :
                          rv \in OddValues }
                 \cup { [fields |-> ("always" :> List(f.roots)), objs |-> f.objs] :
                          f \in Forests(1, 2, fname) } }

Docs(fname) == TaskDocs(fname) \cup PlayDocs(fname) \cup OddDocs(fname)

(***************************************************************************)
(* Operations of the extractor                                             *)
(***************************************************************************)
NoResult == [err |-> "", val |-> <<>>]
NoCall == [id |-> 0, filename |-> "", custom_modules |-> {}, legacy |-> FALSE]

Init ==
    /\ pc = "init"
    /\ heap = EmptyDict
    /\ parsed = EmptyDict
    /\ yaml = <<>>
    /\ file = [filetype |-> ""]
    /\ tasks = NoResult
    /\ task_in = NoCall
    /\ normalized = NoResult
    /\ renormalized = NoResult
    /\ builtin_tasks = BUILTIN_TASKS
    /\ fs = [dirs |-> {}, files |-> {}, content |-> EmptyDict]
    /\ call = [op |-> ""]
    /\ children = NoResult
    /\ module_dirs = {}

\* parse_yaml_linenumbers(data, filename)
ParseYamlLinenumbers ==
    /\ pc = "init"
    /\ \E fname \in FileNames : \E doc \in Docs(fname) :
         /\ heap' = doc.heap
         /\ parsed' = doc.heap
         /\ yaml' = doc.yaml
    /\ pc' = "parsed"
    /\ UNCHANGED <<file, tasks, task_in, normalized, builtin_tasks, renormalized, resolveVars>>

\* action_tasks(yaml, file)
ActionTasks ==
    /\ pc = "parsed"
    /\ \E ft \in FileTypes :
         LET f == [filetype |-> ft]
             r == action_tasks(heap, yaml, f)
         IN /\ file' = f
            /\ heap' = r.heap
            /\ tasks' = [err |-> r.err, val |-> r.out]
    /\ pc' = "extracted"
    /\ UNCHANGED <<yaml, parsed, task_in, normalized, builtin_tasks, renormalized, resolveVars>>

\* normalize_task on one of the tasks action_tasks returned
NormalizeTask ==
    /\ pc = "extracted"
    /\ tasks.err = ""
    /\ \E i \in 1..Len(tasks.val), fname \in FileNames, legacy \in BOOLEAN :
         LET id == tasks.val[i].ref
             r == normalize_task(heap[id], fname, {}, builtin_tasks, legacy)
         IN /\ task_in' = [id |-> id, filename |-> fname, custom_modules |-> {},
                           legacy |-> legacy]
            /\ heap' = [heap EXCEPT ![id] = r.task]
            /\ builtin_tasks' = r.builtin
            /\ normalized' = r.res
    /\ pc' = "normalized"
    /\ UNCHANGED <<yaml, file, parsed, tasks, renormalized, resolveVars>>

NextExtract == ParseYamlLinenumbers \/ ActionTasks \/ NormalizeTask

SpecExtract == Init /\ [][NextExtract]_vars

(***************************************************************************)
(* Claims about the extractor and the line numbers                         *)
(***************************************************************************)
\* the keys the claims name as structural
StructuralKeys ==
    {"block", "rescue", "always", "include", "include_tasks", "import_playbook", "import_tasks"}

\* ids of the tasks action_tasks returned
Returned == { tasks.val[i].ref : i \in 1..Len(tasks.val) }

Extracted == pc = "extracted" /\ tasks.err = ""

ListItems(d, keys) ==
    UNION { { d[k].list[i].ref : i \in 1..Len(d[k].list) } :
            k \in { x \in keys \cap DOMAIN d : IsList(d[x]) } }

\* the candidates of the first pass
FirstPass ==
    LET top == { yaml[i].ref : i \in 1..Len(yaml) }
    IN IF file.filetype \in {"tasks", "handlers"} THEN top
       ELSE UNION { ListItems(parsed[p], PlaySections) : p \in top }

RECURSIVE Closure(_)
\* everything reachable through block/rescue/always lists
Closure(S) ==
    LET S2 == S \cup UNION { ListItems(parsed[i], block_rescue_always) : i \in S }
    IN IF S2 = S THEN S ELSE Closure(S2)

IsOwner(id) == ListItems(parsed[id], block_rescue_always) # {}
IsPlainTask(id) == DOMAIN parsed[id] \cap StructuralKeys = {}

\* C1: no entry of the list action_tasks returns has any of the keys block,
\* rescue, always, include, include_tasks, import_playbook, import_tasks,
\* whatever the parsed content and the file kind.
C1_NoStructuralKeys ==
    Extracted => \A id \in Returned : DOMAIN heap[id] \cap StructuralKeys = {}

\* C1 witness: a list was returned for a content holding a block owner and an
\* import_tasks entry next to a task that is returned.
C1_Witness ==
    /\ Extracted
    /\ Returned # {}
    /\ \E o \in FirstPass : IsOwner(o)
    /\ \E i \in Closure(FirstPass) : "import_tasks" \in DOMAIN parsed[i]

\* C2: every task mapping without structural keys that is reachable from a
\* first-pass candidate through any number of nested block/rescue/always
\* lists is in the returned list.
C2_FlattensRecursively ==
    Extracted => \A id \in Closure(FirstPass) : IsPlainTask(id) => id \in Returned

\* the same, for the items one level below a first-pass candidate only
Depth1Flattened ==
    Extracted =>
      \A o \in FirstPass : \A id \in {o} \cup ListItems(parsed[o], block_rescue_always) :
        IsPlainTask(id) => id \in Returned

MetaOf(d) == Get(d, "__ansible_action_meta__", Dict(EmptyDict))

\* what the claim says of the block owner o
OwnerExpanded(o) ==
    /\ o \notin Returned
    /\ \A k \in { x \in block_rescue_always \cap DOMAIN parsed[o] : IsList(parsed[o][x]) } :
         \A i \in 1..Len(parsed[o][k].list) :
           LET id == parsed[o][k].list[i].ref IN
           IsPlainTask(id) =>
             /\ id \in Returned
             /\ heap[id]["__ansible_action_type__"] = Str(<<Word("meta")>>)
             /\ MetaOf(heap[id]) = Dict(Pop(heap[o], delete_meta_keys(k)))

\* C3: for a block owner with list-valued block, rescue, always keys the
\* items of those lists are returned, tagged meta, carrying the snapshot of
\* the owner's other fields, and the owner itself is not returned.
C3_BlockItemsTagged ==
    Extracted => \A o \in Closure(FirstPass) : IsOwner(o) => OwnerExpanded(o)

\* the same, for the block owners among the first-pass candidates only
FirstPassOwnersExpanded ==
    Extracted => \A o \in FirstPass : IsOwner(o) => OwnerExpanded(o)

\* C4: the line and the file name recorded on a mapping at parse time are
\* those of the action normalize_task makes of it after extraction.
C4_LinePreserved ==
    (pc = "normalized" /\ normalized.err = "") =>
      /\ LINE_NUMBER_KEY \in DOMAIN normalized.val
      /\ FILENAME_KEY \in DOMAIN normalized.val
      /\ normalized.val[LINE_NUMBER_KEY] = parsed[task_in.id][LINE_NUMBER_KEY]
      /\ normalized.val[FILENAME_KEY] = parsed[task_in.id][FILENAME_KEY]
      /\ normalized.val[LINE_NUMBER_KEY] = Num(task_in.id)

\* C4 witness: an item of a block, first mapping of no file, normalized under
\* another file name than the one it was parsed from.
C4_Witness ==
    /\ pc = "normalized" /\ normalized.err = ""
    /\ normalized.val["__ansible_action_type__"] = Str(<<Word("meta")>>)
    /\ parsed[task_in.id][FILENAME_KEY] # Str(<<Word(task_in.filename)>>)
    /\ normalized.val[LINE_NUMBER_KEY] = Num(3)

(***************************************************************************)
(* Operations of the normalizer on its own                                 *)
(***************************************************************************)
S1(w) == Str(<<Word(w)>>)

\* the ways a raw task names its module
ActionForms ==
    { ("debug" :> Str(<<KV("msg", "hello")>>)),
      ("debug" :> Dict(("msg" :> S1("hello")))),
      ("command" :> Str(<<Word("ls"), Word("-la")>>)),
      ("command" :> Str(<<Word("echo"), Quoted(<<"a", "b">>), KV("chdir", "/tmp")>>)),
      ("command" :> Dict(("cmd" :> S1("ls")) @@ ("_uses_shell" :> [bool |-> TRUE]))),
      ("shell" :> Str(<<Word("ls"), KV("x", "1")>>)),
      ("action" :> Str(<<Word("command"), Word("ls")>>)),
      ("action" :> Str(<<Word("shell"), Word("ls")>>)),
      ("action" :> Dict(("module" :> S1("copy")) @@ ("src" :> S1("a")))),
      ("local_action" :> Str(<<Word("command"), Word("ls")>>)),
      ("mymod" :> Str(<<KV("x", "1")>>)),
      EmptyDict,
      ("debug" :> Str(<<KV("msg", "hello")>>)) @@ ("command" :> Str(<<Word("ls")>>)),
      ("action" :> Str(<<Word("command"), Word("ls")>>))
         @@ ("local_action" :> Str(<<Word("command"), Word("ls")>>)),
      ("debug" :> Str(<<Word("oops")>>)) }

\* the other fields a raw task may carry
ExtraFields ==
    ("name" :> S1("demo")) @@ ("delegate_to" :> S1("host1"))
      @@ ("args" :> Dict(("chdir" :> S1("/srv"))))

\* the bookkeeping keys as parse and extraction leave them, or none
Bookkeeping ==
    { EmptyDict,
      construct_mapping(EmptyDict, 4, "site.yml"),
      construct_mapping(("__ansible_action_type__" :> S1("handler")), 0, "main.yml"),
      construct_mapping(("__ansible_action_type__" :> S1("meta"))
                          @@ ("__ansible_action_meta__" :> Dict(("when" :> S1("x")))),
                        6, "site.yml") }

RawTasks ==
    { form @@ [k \in ks |-> ExtraFields[k]] @@ bk :
        form \in ActionForms, ks \in SUBSET DOMAIN ExtraFields, bk \in Bookkeeping }

CustomModules == { {}, {"mymod"} }

\* a normalized record fed back as a raw task, its module as the action key
Refeed(n) ==
    LET m == n["action"].dict["__ansible_module__"].str[1].w
    IN Put(Pop(n, {"action"}), m, n["action"])

\* a caller holding one raw task mapping
LoadTask ==
    /\ pc = "init"
    /\ \E t \in RawTasks :
         /\ heap' = (1 :> t)
         /\ parsed' = (1 :> t)
    /\ pc' = "loaded"
    /\ UNCHANGED <<yaml, file, tasks, task_in, normalized, builtin_tasks, renormalized, resolveVars>>

\* the caller drops the task and its results; the module registry stays
NextTask ==
    /\ pc \in {"normalized", "renormalized"}
    /\ heap' = EmptyDict
    /\ parsed' = EmptyDict
    /\ task_in' = NoCall
    /\ normalized' = NoResult
    /\ renormalized' = NoResult
    /\ pc' = "init"
    /\ UNCHANGED <<yaml, file, tasks, builtin_tasks, resolveVars>>

\* normalize_task(task, filename, custom_modules)
NormalizeRaw ==
    /\ pc = "loaded"
    /\ \E fname \in FileNames, cm \in CustomModules, legacy \in BOOLEAN :
         LET r == normalize_task(heap[1], fname, cm, builtin_tasks, legacy)
         IN /\ task_in' = [id |-> 1, filename |-> fname, custom_modules |-> cm,
                           legacy |-> legacy]
            /\ heap' = [heap EXCEPT ![1] = r.task]
            /\ builtin_tasks' = r.builtin
            /\ normalized' = r.res
    /\ pc' = "normalized"
    /\ UNCHANGED <<yaml, file, parsed, tasks, renormalized, resolveVars>>

\* normalize_task on the record it returned, re-fed
Renormalize ==
    /\ pc = "normalized"
    /\ normalized.err = ""
    /\ LET r == normalize_task(Refeed(normalized.val), task_in.filename,
                               task_in.custom_modules, builtin_tasks, task_in.legacy)
       IN /\ renormalized' = r.res
          /\ builtin_tasks' = r.builtin
    /\ pc' = "renormalized"
    /\ UNCHANGED <<heap, yaml, file, parsed, tasks, task_in, normalized, resolveVars>>

NextNormalize == LoadTask \/ NormalizeRaw \/ Renormalize \/ NextTask

SpecNormalize == Init /\ [][NextNormalize]_vars

(***************************************************************************)
(* Claims about the normalizer                                             *)
(***************************************************************************)
Normalized == pc = "normalized" /\ normalized.err = ""

\* the raw task as the caller held it, and the module normalize_task resolved
RawTask == parsed[task_in.id]
ResolvedModule == normalized.val["action"].dict["__ansible_module__"].str[1].w

\* C9: after normalize_task one module name is known, the reserved keys and
\* the key naming the resolved module are not passed through from the raw
\* task, and every other raw field is carried over unchanged.
C9_ReservedKeysConsumed ==
    Normalized =>
      LET n == normalized.val
          consumed == reserved_keys \cup {ResolvedModule}
      IN /\ IsDictVal(n["action"])
         /\ IsStr(n["action"].dict["__ansible_module__"])
         /\ Len(n["action"].dict["__ansible_module__"].str) = 1
         /\ \A k \in consumed \ {"action", "delegate_to"} : k \notin DOMAIN n
         /\ n["delegate_to"] = IF "local_action" \in DOMAIN RawTask THEN S1("localhost")
                               ELSE Get(RawTask, "delegate_to", None)
         /\ \A k \in DOMAIN RawTask \ consumed : k \in DOMAIN n /\ n[k] = RawTask[k]

\* C9 witness: a raw task with a module key, args, delegate_to, local_action
\* aside and a pass-through field has been normalized.
C9_Witness ==
    /\ Normalized
    /\ {"local_action", "args", "delegate_to", "name"} \subseteq DOMAIN RawTask
    /\ normalized.val["name"] = S1("demo")

\* C10: normalizing the re-fed normalized record gives the record again.
C10_Idempotent ==
    pc = "renormalized" => renormalized = normalized

(***************************************************************************)
(* Dependency resolver.  A path is the sequence of its components, "/"     *)
(* first when absolute.  A string used as a path is [parts, rest]: the     *)
(* components of its first token and the tokens that follow it after a     *)
(* space (they belong to the name of the last component).                  *)
(***************************************************************************)

RECURSIVE NormFrom(_, _)
NormFrom(acc, rest) ==
    IF rest = <<>> THEN acc
    ELSE IF Head(rest) = ".."
    THEN NormFrom(IF Len(acc) > 1 THEN SubSeq(acc, 1, Len(acc) - 1) ELSE acc, Tail(rest))
    ELSE NormFrom(Append(acc, Head(rest)), Tail(rest))
normpath(parts) == NormFrom(<<>>, parts)

\* os.path.join(a, b): an absolute b (its first component is "/") replaces a
os_path_join(a, b) == IF b # <<>> /\ b[1] = "/" THEN b ELSE a \o b

StrPath(toks) ==
    IF toks = <<>> THEN [parts |-> <<>>, rest |-> <<>>]
    ELSE [parts |-> IF HasEq(toks[1]) THEN <<toks[1].k \o "=" \o toks[1].v>> ELSE toks[1].w,
          rest |-> Tail(toks)]
PlainPath(parts) == [parts |-> parts, rest |-> <<>>]

\* path_dwim(basedir, given): given relative to basedir, normalized
path_dwim(basedir, given) ==
    [parts |-> normpath(os_path_join(basedir, given.parts)), rest |-> given.rest]

exists(fsys, p) == p.rest = <<>> /\ p.parts \in fsys.dirs \cup fsys.files
isdir(fsys, p) == p.rest = <<>> /\ p.parts \in fsys.dirs

\* directory names of the model that end in "tasks" (basedir.endswith("tasks"))
endswith_tasks(basedir) == basedir # <<>> /\ basedir[Len(basedir)] \in {"tasks", "pre_tasks", "post_tasks"}

\* results of the resolver's functions: the children, and the directories
\* registered with the module loader on the way
Kids(val, libs) == [err |-> "", val |-> val, libs |-> libs]
Fail(e, libs) == [err |-> e, val |-> <<>>, libs |-> libs]
Then(r1, r2) ==
    IF r1.err # "" THEN r1
    ELSE [err |-> r2.err,
          val |-> IF r2.err = "" THEN r1.val \o r2.val ELSE <<>>,
          libs |-> r1.libs \cup r2.libs]

\* tokenize(line): the line's first token is the key with its colon
KeyTok(k) == [key |-> k]
tokenize(line) ==
    LET t1 == IF line[1] = Word(<<"-">>) THEN Tail(line) ELSE line
        t2 == IF t1[1] \in {KeyTok("action"), KeyTok("local_action")} THEN Tail(t1) ELSE t1
        rest == Tail(t2)
        nonkv == { i \in 1..Len(rest) : ~HasEq(rest[i]) }
        first == IF nonkv = {} THEN Len(rest) + 1
                 ELSE CHOOSE i \in nonkv : \A j \in nonkv : i <= j
    IN [command |-> t2[1],
        args |-> SubSeq(rest, first, Len(rest)),
        kwargs |-> SubSeq(rest, 1, first - 1)]

\* _load_library_if_exists(path)
_load_library_if_exists(fsys, parts) ==
    IF exists(fsys, PlainPath(parts)) THEN {parts} ELSE {}

\* template(): the templating engine renders playbook_dir, leaves undefined
\* variables as they are, and raises on a template it cannot parse or
\* evaluate; template() suppresses the error and so returns None
PlaybookDirVar == "{{playbook_dir}}"
BrokenTemplate == "{{x|to_json"
RenderTok(tok, basedir) ==
    IF "w" \in DOMAIN tok /\ tok.w # <<>> /\ tok.w[1] = PlaybookDirVar
    THEN Word(basedir \o Tail(tok.w)) ELSE tok
TokBroken(tok) == "w" \in DOMAIN tok /\ \E i \in 1..Len(tok.w) : tok.w[i] = BrokenTemplate

RECURSIVE Broken(_), Render(_, _)
Broken(v) ==
    CASE IsStr(v) -> \E i \in 1..Len(v.str) : TokBroken(v.str[i])
      [] IsList(v) -> \E i \in 1..Len(v.list) : Broken(v.list[i])
      [] IsDictVal(v) -> \E k \in DOMAIN v.dict : Broken(v.dict[k])
      [] OTHER -> FALSE
Render(v, basedir) ==
    CASE IsStr(v) -> Str([i \in 1..Len(v.str) |-> RenderTok(v.str[i], basedir)])
      [] IsList(v) -> List([i \in 1..Len(v.list) |-> Render(v.list[i], basedir)])
      [] IsDictVal(v) -> Dict([k \in DOMAIN v.dict |-> Render(v.dict[k], basedir)])
      [] OTHER -> v

ansible_template(basedir, value) ==
    IF Broken(value) THEN Raise("AnsibleError") ELSE Ok(Render(value, basedir))

template(basedir, value) ==
    LET r == ansible_template(basedir, value)
    IN IF r.err \in {"AnsibleError", "ValueError"} THEN None ELSE r.val

\* constants.DEFAULT_ROLES_PATH
DEFAULT_ROLES_PATH == << <<"/", "etc", "roles">> >>

\* lines 329-337 of _rolepath: the first candidate that is a directory, and
\* its library
first_dir(fsys, possible_paths) ==
    LET hits == { i \in 1..Len(possible_paths) : isdir(fsys, possible_paths[i]) }
        role_path == possible_paths[CHOOSE i \in hits : \A j \in hits : i <= j].parts
    IN IF hits = {} THEN [found |-> FALSE, path |-> <<>>, libs |-> {}]
       ELSE [found |-> TRUE, path |-> role_path,
             libs |-> _load_library_if_exists(fsys, role_path \o <<"library">>)]

\* _rolepath(basedir, role)
_rolepath(fsys, basedir, role) ==
    first_dir(fsys,
        << path_dwim(basedir, PlainPath(os_path_join(<<"roles">>, role))),
           path_dwim(basedir, PlainPath(role)),
           path_dwim(basedir, PlainPath(os_path_join(<<"..", "..", "..", "roles">>, role))),
           path_dwim(basedir, PlainPath(os_path_join(<<"..", "..">>, role))) >>
        \o [i \in 1..Len(DEFAULT_ROLES_PATH) |->
              path_dwim(DEFAULT_ROLES_PATH[i], PlainPath(role))])

role_subdirs == <<"tasks", "handlers", "meta">>
role_exts == <<".yml", ".yaml">>

\* an inner loop without the break: one edge per extension that exists
role_file_every_ext(fsys, role_path, th, main) ==
    LET edge(i) == IF exists(fsys, PlainPath(role_path \o <<th, main \o role_exts[i]>>))
                   THEN << [path |-> PlainPath(role_path \o <<th, main \o role_exts[i]>>),
                            type |-> th] >>
                   ELSE <<>>
    IN edge(1) \o edge(2)

\* an inner loop that does not look whether the file exists
role_file_unchecked(fsys, role_path, th, main) ==
    << [path |-> PlainPath(role_path \o <<th, main \o role_exts[1]>>), type |-> th] >>

\* the inner loop of _look_for_role_files: the first extension that exists
role_file(fsys, role_path, th, main) ==
    LET hits == { i \in 1..Len(role_exts) :
                    exists(fsys, PlainPath(role_path \o <<th, main \o role_exts[i]>>)) }
    IN IF hits = {} THEN <<>>
       ELSE LET i == CHOOSE x \in hits : \A j \in hits : x <= j
            IN << [path |-> PlainPath(role_path \o <<th, main \o role_exts[i]>>),
                   type |-> th] >>

RECURSIVE role_files_from(_, _, _, _)
role_files_from(fsys, role_path, main, i) ==
    IF i > Len(role_subdirs) THEN <<>>
    ELSE role_file(fsys, role_path, role_subdirs[i], main)
           \o role_files_from(fsys, role_path, main, i + 1)

\* lines 342-353 of _look_for_role_files, rp being what _rolepath returned
role_edges(fsys, rp, main) ==
    IF ~rp.found THEN Kids(<<>>, {})
    ELSE Kids(role_files_from(fsys, rp.path, main, 1), rp.libs)

\* _look_for_role_files(basedir, role, main)
_look_for_role_files(fsys, basedir, role, main) ==
    IF ~IsStr(role) THEN Fail("TypeError", {})
    ELSE role_edges(fsys, _rolepath(fsys, basedir, StrPath(role.str).parts), main)

SkipTag == Word(<<"skip_ansible_later">>)
\* "skip_ansible_later" not in role["tags"]
not_skipped(tags) ==
    CASE IsList(tags) -> \A i \in 1..Len(tags.list) : tags.list[i] # Str(<<SkipTag>>)
      [] IsStr(tags) -> \A i \in 1..Len(tags.str) : tags.str[i] # SkipTag
      [] OTHER -> TRUE

\* one role reference of _roles_children
role_children(fsys, basedir, role, main) ==
    IF IsDictVal(role)
    THEN IF "role" \in DOMAIN role.dict \/ "name" \in DOMAIN role.dict
         THEN IF "tags" \notin DOMAIN role.dict \/ not_skipped(role.dict["tags"])
              THEN _look_for_role_files(fsys, basedir,
                       Get(role.dict, "role", Get(role.dict, "name", None)), main)
              ELSE Kids(<<>>, {})
         ELSE Fail("SystemExit", {})
    ELSE _look_for_role_files(fsys, basedir, role, main)

RECURSIVE roles_children_from(_, _, _, _, _)
roles_children_from(fsys, basedir, roles, main, i) ==
    IF i > Len(roles) THEN Kids(<<>>, {})
    ELSE Then(role_children(fsys, basedir, roles[i], main),
              roles_children_from(fsys, basedir, roles, main, i + 1))

\* _roles_children(basedir, k, v, parent_type, main)
_roles_children(fsys, basedir, k, v, parent_type, main) ==
    IF ~IsList(v) THEN Fail("TypeError", {})
    ELSE roles_children_from(fsys, basedir, v.list, main, 1)

\* append_children(taskhandler, basedir, k, parent_type, results)
append_children(taskhandler, basedir, k, parent_type) ==
    IF ~IsStr(taskhandler) THEN Fail("TypeError", {})
    ELSE Kids(<< [path |-> path_dwim(basedir, StrPath(taskhandler.str)),
                  type |-> IF parent_type = "playbook" THEN k ELSE parent_type] >>, {})

\* the role of an import_role/include_role entry
role_import(fsys, basedir, spec) ==
    IF ~IsDictVal(spec) THEN Fail("AttributeError", {})
    ELSE LET tf == Get(spec.dict, "tasks_from", Str(<<Word(<<"main">>)>>))
         IN roles_children_from(fsys, basedir, <<Get(spec.dict, "name", None)>>,
                                tf.str[1].w[1], 1)

RECURSIVE _taskshandlers_children(_, _, _, _, _), th_children(_, _, _, _, _), th_from(_, _, _, _, _, _)
\* one entry of the list _taskshandlers_children walks
th_children(fsys, basedir, k, th, parent_type) ==
    LET d == th.dict
        sub(key) == _taskshandlers_children(fsys, basedir, k, d[key], parent_type)
    IN CASE "include" \in DOMAIN d -> append_children(d["include"], basedir, k, parent_type)
         [] "include_tasks" \in DOMAIN d ->
              append_children(d["include_tasks"], basedir, k, parent_type)
         [] "import_playbook" \in DOMAIN d ->
              append_children(d["import_playbook"], basedir, k, parent_type)
         [] "import_tasks" \in DOMAIN d ->
              append_children(d["import_tasks"], basedir, k, parent_type)
         [] "import_role" \in DOMAIN d -> role_import(fsys, basedir, d["import_role"])
         [] "include_role" \in DOMAIN d -> role_import(fsys, basedir, d["include_role"])
         [] "block" \in DOMAIN d ->
              Then(sub("block"),
                   Then(IF "rescue" \in DOMAIN d THEN sub("rescue") ELSE Kids(<<>>, {}),
                        IF "always" \in DOMAIN d THEN sub("always") ELSE Kids(<<>>, {})))
         [] OTHER -> Kids(<<>>, {})

th_from(fsys, basedir, k, ths, parent_type, i) ==
    IF i > Len(ths) THEN Kids(<<>>, {})
    ELSE Then(th_children(fsys, basedir, k, ths[i], parent_type),
              th_from(fsys, basedir, k, ths, parent_type, i + 1))

\* _taskshandlers_children(basedir, k, v, parent_type)
_taskshandlers_children(fsys, basedir, k, v, parent_type) ==
    IF ~IsList(v) THEN Fail("TypeError", {})
    ELSE th_from(fsys, basedir, k, v.list, parent_type, 1)

\* _include_children(basedir, k, v, parent_type); str(None) is "None"
_include_children(fsys, basedir, k, v, parent_type) ==
    LET vtoks == IF IsNone(v) THEN <<Word(<<"None">>)>> ELSE v.str
        tk == tokenize(<<KeyTok(k)>> \o vtoks)
    IN IF tk.args = <<>> THEN Fail("IndexError", {})
       ELSE LET result == path_dwim(basedir, StrPath(<<tk.args[1]>>))
            IN IF ~exists(fsys, result) /\ ~endswith_tasks(basedir)
               THEN IF IsNone(v) THEN Fail("TypeError", {})
                    ELSE Kids(<< [path |-> path_dwim(basedir \o <<"..", "tasks">>,
                                                     StrPath(v.str)),
                                  type |-> parent_type] >>, {})
               ELSE Kids(<< [path |-> result, type |-> parent_type] >>, {})

taskshandlers_keys == {"tasks", "pre_tasks", "post_tasks", "block", "handlers"}
include_keys == {"include", "import_playbook"}
roles_keys == {"roles", "dependencies"}

\* delegate_map[k](basedir, k, v, parent_type)
delegate_map(fsys, basedir, k, v, parent_type) ==
    CASE k \in taskshandlers_keys -> _taskshandlers_children(fsys, basedir, k, v, parent_type)
      [] k \in include_keys -> _include_children(fsys, basedir, k, v, parent_type)
      [] k \in roles_keys -> _roles_children(fsys, basedir, k, v, parent_type, "main")

\* play_children(basedir, item, parent_type)
play_children(fsys, basedir, item, parent_type) ==
    LET k == item[1]
        libs == _load_library_if_exists(fsys, basedir \o <<"library">>)
    IN IF k \in taskshandlers_keys \cup include_keys \cup roles_keys /\ Truthy(item[2])
       THEN LET r == delegate_map(fsys, basedir, k, template(basedir, item[2]), parent_type)
            IN [r EXCEPT !.libs = @ \cup libs]
       ELSE Kids(<<>>, libs)

\* the strings of the model that contain "=" / "$" or "{{"
UndefinedVar == "{{undefined_dir}}"
TemplatedNames == {PlaybookDirVar, BrokenTemplate, UndefinedVar}
has_template(p) ==
    \/ \E i \in 1..Len(p.parts) : p.parts[i] \in TemplatedNames
    \/ \E i \in 1..Len(p.rest) : ~HasEq(p.rest[i]) /\ \E j \in 1..Len(p.rest[i].w) :
           p.rest[i].w[j] \in TemplatedNames

\* lines 177-185 of find_children: drop templated paths, cut the path at
\* its first token that has "=" in it, resolve it against basedir
RECURSIVE valid_tokens(_)
valid_tokens(toks) ==
    IF toks = <<>> \/ HasEq(toks[1]) THEN <<>>
    ELSE <<toks[1]>> \o valid_tokens(Tail(toks))
child_edge(basedir, child) ==
    IF has_template(child.path) THEN <<>>
    ELSE << [path |-> path_dwim(basedir, [parts |-> child.path.parts,
                                          rest |-> valid_tokens(child.path.rest)]),
             type |-> child.type] >>
RECURSIVE child_edges(_, _)
child_edges(basedir, kids) ==
    IF kids = <<>> THEN <<>>
    ELSE child_edge(basedir, Head(kids)) \o child_edges(basedir, Tail(kids))

\* dict.items() in the order the keys are written in a play
PlayKeyOrder == <<"hosts", "include", "import_playbook", "roles", "dependencies",
                  "pre_tasks", "tasks", "post_tasks", "handlers", "block",
                  "debug", "include_tasks", "name">>
RECURSIVE items_from(_, _)
items_from(d, i) ==
    IF i > Len(PlayKeyOrder) THEN <<>>
    ELSE (IF PlayKeyOrder[i] \in DOMAIN d THEN << <<PlayKeyOrder[i], d[PlayKeyOrder[i]]>> >>
          ELSE <<>>) \o items_from(d, i + 1)
RECURSIVE plays_items(_)
plays_items(plays) ==
    IF plays = <<>> THEN <<>>
    ELSE items_from(Head(plays).dict, 1) \o plays_items(Tail(plays))

\* _playbook_items(pb_data)
_playbook_items(pb_data) ==
    IF IsDictVal(pb_data) THEN items_from(pb_data.dict, 1)
    ELSE IF ~Truthy(pb_data) THEN <<>>
    ELSE plays_items(pb_data.list)

\* Python binds a call's positional arguments to the def's parameters and
\* raises TypeError when there are more arguments than parameters
play_children_params == <<"basedir", "item", "parent_type">>
call_play_children(fsys, args) ==
    IF Len(args) # Len(play_children_params) THEN Fail("TypeError", {})
    ELSE play_children(fsys, args[1], args[2], args[3])

\* the edges of the children r that play_children returned, if it returned
edges_of(basedir, r) ==
    IF r.err # "" THEN r ELSE Kids(child_edges(basedir, r.val), r.libs)

RECURSIVE find_from(_, _, _, _, _, _)
find_from(fsys, basedir, items, playbook, playbook_dir, i) ==
    IF i > Len(items) THEN Kids(<<>>, {})
    ELSE Then(edges_of(basedir,
                  call_play_children(fsys, <<basedir, items[i], playbook[2], playbook_dir>>)),
              find_from(fsys, basedir, items, playbook, playbook_dir, i + 1))

\* parse_yaml_from_file(filepath)
parse_yaml_from_file(fsys, parts) == fsys.content[parts]

\* lines 172-186 of find_children, ds being the parsed entry
find_in(fsys, ds, playbook, playbook_dir) ==
    IF ds.err = "AnsibleError" THEN Fail("SystemExit", {})
    ELSE find_from(fsys, SubSeq(playbook[1], 1, Len(playbook[1]) - 1), _playbook_items(ds.val),
                   playbook, playbook_dir, 1)

\* find_children(playbook, playbook_dir)
find_children(fsys, playbook, playbook_dir) ==
    IF ~exists(fsys, PlainPath(playbook[1])) THEN Kids(<<>>, {})
    ELSE find_in(fsys,
                 IF playbook[2] = "role"
                 THEN Ok(Dict("roles" :> List(<<Dict("role" :> Str(<<Word(playbook[1])>>))>>)))
                 ELSE parse_yaml_from_file(fsys, playbook[1]),
                 playbook, playbook_dir)

(***************************************************************************)
(* Resolver inputs: file systems and calls                                 *)
(***************************************************************************)
Prefixes(parts) == { SubSeq(parts, 1, i) : i \in 1..(Len(parts) - 1) }
MkFS(files, dirs, content) ==
    [files |-> files,
     dirs |-> dirs \cup UNION { Prefixes(f) : f \in files } \cup UNION { Prefixes(d) : d \in dirs },
     content |-> content]

PlaybookDir == <<"/", "pb">>
RoleName == "myrole"
MetaDir == PlaybookDir \o <<"roles", "other", "meta">>
HandlersDir == PlaybookDir \o <<"roles", RoleName, "handlers">>
TasksDir == PlaybookDir \o <<"roles", RoleName, "tasks">>
BaseDirs == {PlaybookDir, MetaDir, HandlersDir, TasksDir}

RoleHomeSets == { {}, {PlaybookDir \o <<"roles", RoleName>>},
                  {DEFAULT_ROLES_PATH[1] \o <<RoleName>>},
                  {PlaybookDir \o <<RoleName>>, DEFAULT_ROLES_PATH[1] \o <<RoleName>>},
                  {PlaybookDir \o <<"roles", RoleName>>, PlaybookDir \o <<RoleName>>} }
RoleFiles == { <<"tasks", "main.yml">>, <<"tasks", "main.yaml">>, <<"handlers", "main.yml">>,
               <<"meta", "main.yaml">>, <<"tasks", "setup.yml">> }
RoleFSs ==
    { MkFS({ h \o f : h \in homes, f \in layout },
           {PlaybookDir, MetaDir} \cup homes \cup { h \o <<"library">> : h \in homes \cap libs },
           EmptyDict) :
        homes \in RoleHomeSets, layout \in SUBSET RoleFiles,
        libs \in {{}, {PlaybookDir \o <<"roles", RoleName>>}} }

SubFile == "sub.yml"
IncludeFSs ==
    { MkFS({ d \o <<SubFile>> : d \in at }, BaseDirs \cup lib, EmptyDict) :
        at \in SUBSET {PlaybookDir, <<"/", "tasks">>, HandlersDir, TasksDir},
        lib \in {{}, {PlaybookDir \o <<"library">>}} }

P1(name) == Str(<<Word(<<name>>)>>)
SkippedRole == Dict("role" :> P1(RoleName) @@ "tags" :> List(<<P1("skip_ansible_later")>>))
RoleRefs ==
    { P1(RoleName),
      Dict("role" :> P1(RoleName)),
      Dict("name" :> P1(RoleName)),
      SkippedRole,
      Dict("role" :> P1(RoleName) @@ "tags" :> List(<<P1("web")>>)),
      Dict("name" :> P1(RoleName) @@ "tags" :> P1("skip_ansible_later")),
      Dict("tags" :> List(<<P1("skip_ansible_later")>>)),
      Dict("role" :> P1(BrokenTemplate)) }
RoleLists ==
    { List(<<r>>) : r \in RoleRefs }
      \cup { List(<<SkippedRole, P1(RoleName)>>),
             List(<<>>) }
RoleCalls ==
    { [fs |-> f, basedir |-> b, item |-> <<k, v>>, parent_type |-> "playbook"] :
        f \in RoleFSs, b \in {PlaybookDir, MetaDir}, k \in roles_keys, v \in RoleLists }

IncludeValues ==
    { P1(SubFile),
      Str(<<Word(<<SubFile>>), KV("tags", "x")>>),
      Str(<<KV("a", "b"), Word(<<SubFile>>)>>),
      Str(<<KV("tags", "x")>>),
      Str(<<Word(<<PlaybookDirVar, SubFile>>)>>),
      Str(<<Word(<<UndefinedVar, SubFile>>)>>),
      Str(<<Word(<<BrokenTemplate, SubFile>>)>>),
      None }
IncludeCalls ==
    { [fs |-> f, basedir |-> b, item |-> <<k, v>>, parent_type |-> t] :
        f \in IncludeFSs, b \in {PlaybookDir, HandlersDir, TasksDir},
        k \in include_keys, v \in IncludeValues, t \in {"playbook", "handlers"} }

TaskEntries ==
    { Dict("include_tasks" :> P1(SubFile)),
      Dict("include" :> Str(<<Word(<<SubFile>>), KV("tags", "x")>>)),
      Dict("import_playbook" :> P1(SubFile)),
      Dict("import_tasks" :> P1(SubFile)),
      Dict("import_role" :> Dict("name" :> P1(RoleName))),
      Dict("include_role" :> Dict("name" :> P1(RoleName) @@ "tasks_from" :> P1("setup"))),
      Dict("import_role" :> Dict(EmptyDict)),
      Dict("debug" :> Str(<<KV("msg", "hello")>>)),
      Dict("rescue" :> List(<<Dict("include_tasks" :> P1(SubFile))>>)),
      Dict("block" :> List(<<Dict("include_tasks" :> P1(SubFile))>>)
             @@ "rescue" :> List(<<Dict("import_tasks" :> P1(SubFile))>>)
             @@ "always" :> List(<<Dict("include" :> P1(SubFile))>>)),
      Dict("block" :> List(<<Dict("block" :> List(<<Dict("include_tasks" :> P1(SubFile))>>))>>)),
      Dict("block" :> None),
      Dict("include_tasks" :> Str(<<Word(<<BrokenTemplate, SubFile>>)>>)) }
TaskLists ==
    { List(<<e>>) : e \in TaskEntries }
      \cup { List(<<Dict("debug" :> Str(<<KV("msg", "hello")>>)),
                    Dict("include_tasks" :> P1(SubFile))>>),
             List(<<>>), None }
TaskFSs ==
    { MkFS({ d \o <<SubFile>> : d \in at }
             \cup { PlaybookDir \o <<"roles", RoleName>> \o f : f \in layout },
           BaseDirs, EmptyDict) :
        at \in SUBSET {HandlersDir, TasksDir},
        layout \in {{}, {<<"tasks", "main.yml">>, <<"tasks", "setup.yml">>}} }
TaskCalls ==
    { [fs |-> f, basedir |-> b, item |-> <<k, v>>, parent_type |-> t] :
        f \in TaskFSs, b \in {PlaybookDir, HandlersDir}, k \in taskshandlers_keys,
        v \in TaskLists, t \in {"playbook", "tasks", "handlers"} }

\* with a key that is not dispatched
PlayCalls ==
    RoleCalls \cup IncludeCalls \cup TaskCalls
      \cup { [fs |-> MkFS({}, BaseDirs, EmptyDict), basedir |-> PlaybookDir,
               item |-> <<"hosts", P1("all")>>, parent_type |-> "playbook"] }

\* entry artifacts of find_children and what their files parse to
SiteFile == PlaybookDir \o <<"site.yml">>
SiteContents ==
    { Ok(Dict("roles" :> List(<<SkippedRole>>))),
      Ok(List(<<Dict("roles" :> List(<<SkippedRole>>))>>)),
      Ok(List(<<Dict("hosts" :> P1("all") @@ "roles" :> List(<<P1(RoleName)>>))>>)),
      Ok(List(<<Dict("hosts" :> P1("all"))>>)),
      Ok(List(<<Dict("debug" :> Str(<<KV("msg", "hello")>>))>>)),
      Ok(List(<<>>)),
      Ok(None),
      Raise("AnsibleError") }
EntryFSs ==
    { MkFS({SiteFile} \cup { h \o f : h \in homes, f \in layout },
           {PlaybookDir} \cup homes, SiteFile :> c) :
        homes \in {{}, {PlaybookDir \o <<"roles", RoleName>>}},
        layout \in {{}, {<<"tasks", "main.yml">>, <<"handlers", "main.yml">>}},
        c \in SiteContents }
      \cup { MkFS({}, {PlaybookDir}, EmptyDict) }
EntryCalls ==
    { [fs |-> f, playbook |-> e] :
        f \in EntryFSs,
        e \in { <<SiteFile, "playbook">>, <<SiteFile, "tasks">>,
                <<PlaybookDir \o <<"roles", RoleName>>, "role">> } }

(***************************************************************************)
(* Resolver operations                                                     *)
(***************************************************************************)
\* a resolver call returned or raised: r is its outcome on the file system f
Returns(f, r) ==
    /\ fs' = f
    /\ children' = [err |-> r.err, val |-> r.val]
    /\ module_dirs' = r.libs

PlayChildren ==
    /\ pc = "init"
    /\ \E c \in PlayCalls :
         /\ call' = [op |-> "play_children", basedir |-> c.basedir, item |-> c.item,
                     parent_type |-> c.parent_type]
         /\ Returns(c.fs, play_children(c.fs, c.basedir, c.item, c.parent_type))
    /\ pc' = "resolved"
    /\ UNCHANGED extractVars

FindChildren ==
    /\ pc = "init"
    /\ \E c \in EntryCalls :
         /\ call' = [op |-> "find_children", playbook |-> c.playbook,
                     playbook_dir |-> PlaybookDir]
         /\ Returns(c.fs, find_children(c.fs, c.playbook, PlaybookDir))
    /\ pc' = "resolved"
    /\ UNCHANGED extractVars

NextResolve == PlayChildren \/ FindChildren
SpecResolve == Init /\ [][NextResolve]_vars

(***************************************************************************)
(* Claims about the resolver                                               *)
(***************************************************************************)
Resolved(op) == pc = "resolved" /\ call.op = op

\* a playbook whose only content is the role reference tagged skip_ansible_later
SkipPlaybooks ==
    { Ok(Dict("roles" :> List(<<SkippedRole>>))),
      Ok(List(<<Dict("roles" :> List(<<SkippedRole>>))>>)) }

\* C5: find_children on an existing playbook whose only content is
\* roles: [{role: myrole, tags: [skip_ansible_later]}] returns an empty edge
\* list, whether or not the role directory exists.
C5_SkippedRoleNoEdges ==
    ( /\ Resolved("find_children")
      /\ call.playbook = <<SiteFile, "playbook">>
      /\ SiteFile \in fs.files
      /\ fs.content[SiteFile] \in SkipPlaybooks )
    => children = Ok(<<>>)

\* the same role reference handed to play_children directly
SkippedRoleNoChildren ==
    ( /\ Resolved("play_children")
      /\ call.item[1] \in roles_keys
      /\ call.item[2] = List(<<SkippedRole>>) )
    => children = Ok(<<>>)

\* a roles/dependencies entry with one reference to the role, not skipped
RoleCall ==
    /\ Resolved("play_children")
    /\ call.item[1] \in roles_keys
    /\ call.item[2] \in { List(<<P1(RoleName)>>),
                          List(<<Dict("role" :> P1(RoleName))>>),
                          List(<<Dict("name" :> P1(RoleName))>>) }
RoleDir == _rolepath(fs, call.basedir, <<RoleName>>)
OnDisk(parts) == parts \in fs.files \cup fs.dirs

\* the edge the claim expects for the subdirectory th, of kind `kind`
MainEdge(th, kind) ==
    LET short == RoleDir.path \o <<th, "main.yml">>
        long == RoleDir.path \o <<th, "main.yaml">>
    IN IF OnDisk(short) THEN << [path |-> PlainPath(short), type |-> kind] >>
       ELSE IF OnDisk(long) THEN << [path |-> PlainPath(long), type |-> kind] >>
       ELSE <<>>

\* C6: resolving a role gives one edge per subdirectory tasks, handlers, meta
\* that has a main.yml or main.yaml, in that order, main.yml preferred, and
\* the edge's type is the subdirectory's name: tasks, handlers, meta.
C6_RoleMainFiles ==
    (RoleCall /\ RoleDir.found) =>
      children = Ok(MainEdge("tasks", "tasks") \o MainEdge("handlers", "handlers")
                      \o MainEdge("meta", "meta"))

\* C6 as the claim words it: the edges are of kind task, handler and meta.
C6_SingularKinds ==
    (RoleCall /\ RoleDir.found) =>
      children = Ok(MainEdge("tasks", "task") \o MainEdge("handlers", "handler")
                      \o MainEdge("meta", "meta"))

\* C6 witness: the role has tasks/main.yml beside tasks/main.yaml, and
\* handlers/main.yml, no meta main file, and was resolved to two edges.
C6_Witness ==
    /\ RoleCall /\ RoleDir.found
    /\ OnDisk(RoleDir.path \o <<"tasks", "main.yml">>)
    /\ OnDisk(RoleDir.path \o <<"tasks", "main.yaml">>)
    /\ OnDisk(RoleDir.path \o <<"handlers", "main.yml">>)
    /\ ~OnDisk(RoleDir.path \o <<"meta", "main.yml">>)
    /\ ~OnDisk(RoleDir.path \o <<"meta", "main.yaml">>)
    /\ children.err = "" /\ Len(children.val) = 2
    /\ children.val[1].type = "tasks" /\ children.val[2].type = "handlers"

\* C7: an include_tasks: sub.yml entry whose target does not exist in the
\* current directory, which does not end in tasks, is resolved against the
\* sibling tasks directory.
C7_IncludeTasksRetried ==
    ( /\ Resolved("play_children")
      /\ call.item[1] \in taskshandlers_keys
      /\ call.item[2] = List(<<Dict("include_tasks" :> P1(SubFile))>>)
      /\ ~endswith_tasks(call.basedir)
      /\ ~OnDisk(call.basedir \o <<SubFile>>) )
    => /\ children.err = ""
       /\ Len(children.val) = 1
       /\ children.val[1].path = PlainPath(normpath(call.basedir \o <<"..", "tasks", SubFile>>))

\* what _include_children does retry: a bare include or import_playbook,
\* with the whole value, trailing key=value arguments included
IncludeRetried ==
    ( /\ Resolved("play_children")
      /\ call.item[1] \in include_keys
      /\ call.item[2] \in { P1(SubFile), Str(<<Word(<<SubFile>>), KV("tags", "x")>>) }
      /\ ~endswith_tasks(call.basedir)
      /\ ~OnDisk(call.basedir \o <<SubFile>>) )
    => /\ children.err = ""
       /\ Len(children.val) = 1
       /\ children.val[1].path =
            [parts |-> normpath(call.basedir \o <<"..", "tasks", SubFile>>),
             rest |-> Tail(call.item[2].str)]

\* C8: when the templating of a dispatched key's value fails, play_children
\* raises nothing and the key contributes no children.
C8_TemplateFailureSkipped ==
    ( /\ Resolved("play_children")
      /\ call.item[1] \in taskshandlers_keys \cup include_keys \cup roles_keys
      /\ Truthy(call.item[2])
      /\ Broken(call.item[2]) )
    => children = Ok(<<>>)


\* the directories a reference to the role may resolve to, seen from basedir
CandidateDirs(basedir) ==
    { normpath(basedir \o <<"roles", RoleName>>),
      normpath(basedir \o <<RoleName>>),
      normpath(basedir \o <<"..", "..", "..", "roles", RoleName>>),
      normpath(basedir \o <<"..", "..", RoleName>>),
      <<"/", "etc", "roles", RoleName>> }

\* find_children was called on an entry path that does not exist
MissingEntry == Resolved("find_children") /\ ~OnDisk(call.playbook[1])
\* the role of a roles/dependencies entry has no directory anywhere
MissingRoleDir == RoleCall /\ \A d \in CandidateDirs(call.basedir) : d \notin fs.dirs
\* the role's directory has no main file in subdirectory th
MissingMain(th) ==
    /\ RoleCall /\ RoleDir.found
    /\ ~OnDisk(RoleDir.path \o <<th, "main.yml">>)
    /\ ~OnDisk(RoleDir.path \o <<th, "main.yaml">>)

\* C11: what is missing on disk is no error: find_children on an entry path
\* that does not exist returns an empty list, a role none of whose candidate
\* directories exists contributes no children, and a role directory without
\* a main file in tasks, handlers or meta contributes no edge of that type.
C11_MissingIsNoError ==
    /\ MissingEntry => children = Ok(<<>>)
    /\ MissingRoleDir => children = Ok(<<>>)
    /\ \A th \in {"tasks", "handlers", "meta"} :
         MissingMain(th) =>
           /\ children.err = ""
           /\ \A i \in 1..Len(children.val) :
                /\ children.val[i].type # th
                /\ children.val[i].path.parts[Len(RoleDir.path) + 1] # th

\* C11 witness: a role directory with tasks/main.yml and neither a handlers
\* nor a meta main file was resolved to the one edge of its tasks file.
C11_Witness ==
    /\ MissingMain("handlers") /\ MissingMain("meta")
    /\ OnDisk(RoleDir.path \o <<"tasks", "main.yml">>)
    /\ children = Ok(<< [path |-> PlainPath(RoleDir.path \o <<"tasks", "main.yml">>),
                         type |-> "tasks"] >>)

\* the other two cases of C11 are reached as well
MissingEntryReached == MissingEntry /\ children = Ok(<<>>)
MissingRoleDirReached == MissingRoleDir /\ children = Ok(<<>>)

====
